---- MODULE Spec2Model ----
(***************************************************************************)
(* chora-sync: vector clocks (clock.py), the change journal                *)
(* (changes.py, ChangeTracker over its SQLite store) and the bidirectional *)
(* merge (merge.py, DatabaseMerger).                                       *)
(*                                                                         *)
(* One ChangeTracker per site.  A tracker is the record                    *)
(*   sync_changes   the rows of table sync_changes, in rowid order         *)
(*   sync_sites     table sync_sites: site_id -> last_seen_version         *)
(*   sync_clock     the clock_json of the single row of table sync_clock   *)
(*   current_clock  the handle's in-memory _current_clock                  *)
(*   site_id        the handle's site_id                                   *)
(***************************************************************************)
EXTENDS Integers, Sequences, FiniteSets, TLC

VARIABLES tracker, last, recording, calls

vars == <<tracker, last, recording, calls>>

(***************************************************************************)
(* Bounds of the model.                                                    *)
(***************************************************************************)
\* Record is not taken once it would stamp a db_version above MaxVersion.
MaxVersion == 2
\* Total number of record_change calls in the replicated system.
MaxRecords == 2
\* Rows a journal may hold when changes are injected from outside.
MaxRows == 2
\* Record is not taken once the site's own clock counter has reached MaxClock
\* (a failed record_change advances the counter without adding a row).
MaxClock == MaxVersion + 1

Sites == {"a", "b", "c"}
Entities == {"e1", "e2"}
None == "None"

(***************************************************************************)
(* clock.py: VectorClock.  A clock is the dict `counters`: a function from *)
(* the site ids it holds to integers.                                      *)
(***************************************************************************)
EmptyClock == [s \in {} |-> 0]

get(c, s) == IF s \in DOMAIN c THEN c[s] ELSE 0

increment(c, s) == [x \in DOMAIN c \cup {s} |-> IF x = s THEN get(c, s) + 1 ELSE c[x]]

Max2(x, y) == IF x >= y THEN x ELSE y

\* A merge that walks only the keys of self.
merge_own_keys(c, other) == [x \in DOMAIN c |-> Max2(get(c, x), get(other, x))]

\* all_sites is the union of both key sets; each counter is the max of the two.
merge(c, other) == [x \in DOMAIN c \cup DOMAIN other |-> Max2(get(c, x), get(other, x))]

\* A compare that walks only the keys of self.
compare_own_keys(c, other) ==
  LET less_or_equal == \A x \in DOMAIN c : ~(get(c, x) > get(other, x))
      greater_or_equal == \A x \in DOMAIN c : ~(get(c, x) < get(other, x))
  IN  IF less_or_equal /\ greater_or_equal THEN 0
      ELSE IF less_or_equal THEN -1
      ELSE IF greater_or_equal THEN 1
      ELSE 2

\* -1 before, 1 after, 0 equal; the None of "concurrent" is written 2.
compare(c, other) ==
  LET all_sites == DOMAIN c \cup DOMAIN other
      less_or_equal == \A x \in all_sites : ~(get(c, x) > get(other, x))
      greater_or_equal == \A x \in all_sites : ~(get(c, x) < get(other, x))
  IN  IF less_or_equal /\ greater_or_equal THEN 0
      ELSE IF less_or_equal THEN -1
      ELSE IF greater_or_equal THEN 1
      ELSE 2

\* VectorClock.__eq__
clock_eq(c, other) == compare(c, other) = 0

\* json.dumps of the counters dict: the members of a JSON object.
to_json(c) == {<<s, c[s]>> : s \in DOMAIN c}

\* json.loads of a JSON object back into a dict.
from_json(j) == [s \in {p[1] : p \in j} |-> (CHOOSE p \in j : p[1] = s)[2]]

(***************************************************************************)
(* changes.py: ChangeType, Change and the stored row.                      *)
(***************************************************************************)
ChangeTypes == {"INSERT", "UPDATE", "DELETE"}

\* ChangeType.value
change_type_value(ct) ==
  CASE ct = "INSERT" -> "insert" [] ct = "UPDATE" -> "update" [] ct = "DELETE" -> "delete"

\* ChangeType(value)
change_type_of(v) == CHOOSE ct \in ChangeTypes : change_type_value(ct) = v

\* datetime.isoformat / datetime.fromisoformat; a datetime is a tick count.
isoformat(t) == <<"iso", t>>
fromisoformat(x) == x[2]

Change(entity_id, change_type, table_name, column_name, value, site_id, db_version, clock, timestamp) ==
  [entity_id |-> entity_id, change_type |-> change_type, table_name |-> table_name,
   column_name |-> column_name, value |-> value, site_id |-> site_id,
   db_version |-> db_version, clock |-> clock, timestamp |-> timestamp]

\* The tuple bound to INSERT INTO sync_changes.
row_of(change) ==
  [entity_id |-> change.entity_id, change_type |-> change_type_value(change.change_type),
   table_name |-> change.table_name, column_name |-> change.column_name,
   value |-> change.value, site_id |-> change.site_id, db_version |-> change.db_version,
   clock_json |-> to_json(change.clock), timestamp |-> isoformat(change.timestamp)]

\* The Change built from a row by get_changes_since.
change_of(row) ==
  Change(row.entity_id, change_type_of(row.change_type), row.table_name, row.column_name,
         row.value, row.site_id, row.db_version, from_json(row.clock_json),
         fromisoformat(row.timestamp))

\* Identity of a change across replicas.
triple(c) == <<c.site_id, c.db_version, c.entity_id>>

(***************************************************************************)
(* changes.py: ChangeTracker.                                              *)
(***************************************************************************)
\* ChangeTracker.__init__ on a fresh store.
NewTracker(site_id) ==
  [site_id |-> site_id, sync_changes |-> <<>>, sync_sites |-> [s \in {} |-> 0],
   sync_clock |-> to_json(EmptyClock), current_clock |-> EmptyClock]

\* Mutant of init_tables: the tables are created anew, dropping the rows.
init_tables_reset(t) ==
  [t EXCEPT !.sync_changes = <<>>, !.current_clock = from_json(t.sync_clock)]

\* ChangeTracker.__init__ on an existing store: _init_tables loads the clock.
init_tables(t) == [t EXCEPT !.current_clock = from_json(t.sync_clock)]

\* SELECT COALESCE(MAX(db_version), 0) FROM sync_changes
get_current_version(t) ==
  LET vs == {t.sync_changes[i].db_version : i \in 1..Len(t.sync_changes)}
  IN  IF vs = {} THEN 0 ELSE CHOOSE x \in vs : \A y \in vs : y <= x

\* The rowids of idx, ORDER BY db_version ASC (equal versions in rowid order).
RECURSIVE order_by_version(_, _)
order_by_version(rows, idx) ==
  IF idx = {} THEN <<>>
  ELSE LET i == CHOOSE x \in idx : \A y \in idx :
                   \/ rows[x].db_version < rows[y].db_version
                   \/ rows[x].db_version = rows[y].db_version /\ x <= y
       IN  <<change_of(rows[i])>> \o order_by_version(rows, idx \ {i})

\* Mutant of get_changes_since: WHERE db_version >= ?
get_changes_since_inclusive(t, since_version) ==
  order_by_version(t.sync_changes,
                   {i \in 1..Len(t.sync_changes) : t.sync_changes[i].db_version >= since_version})

\* Mutant of get_changes_since: the ORDER BY is lost, the rows come in rowid
\* order.
get_changes_since_rowid_order(t, since_version) ==
  LET sel == SelectSeq(t.sync_changes, LAMBDA row : row.db_version > since_version)
  IN  [k \in 1..Len(sel) |-> change_of(sel[k])]

\* SELECT * FROM sync_changes WHERE db_version > ? ORDER BY db_version ASC
get_changes_since(t, since_version) ==
  order_by_version(t.sync_changes,
                   {i \in 1..Len(t.sync_changes) : t.sync_changes[i].db_version > since_version})

get_current_clock(t) == t.current_clock

get_site_version(t, site_id) ==
  IF site_id \in DOMAIN t.sync_sites THEN t.sync_sites[site_id] ELSE 0

\* INSERT INTO sync_sites ... ON CONFLICT(site_id) DO UPDATE.  The last_sync
\* column is written here and read nowhere; it is left out.
update_site_version(t, site_id, version) ==
  [t EXCEPT !.sync_sites =
     [x \in DOMAIN t.sync_sites \cup {site_id} |->
        IF x = site_id THEN version ELSE t.sync_sites[x]]]

(***************************************************************************)
(* A store fault is an sqlite3 exception out of one statement of a call.   *)
(* The connection is closed without commit, so the store keeps its old     *)
(* content; assignments already made to _current_clock stay.               *)
(*   "ok"          no statement raises                                     *)
(*   "fail_read"   the first SELECT raises                                 *)
(*   "fail_write"  the INSERT, the UPDATE or the commit raises             *)
(***************************************************************************)
Faults == {"ok", "fail_read", "fail_write"}

\* Mutant of record_change: the version read from the store is stamped as it
\* is once the journal has rows (the "+ 1" is lost).
record_change_no_increment(t, entity_id, change_type, table_name, column_name, value, now, fault) ==
  LET clock == increment(t.current_clock, t.site_id)
      db_version == Max2(get_current_version(t), 1)
      change == Change(entity_id, change_type, table_name, column_name, value,
                       t.site_id, db_version, clock, now)
  IN  IF fault # "ok"
      THEN [t |-> [t EXCEPT !.current_clock = clock], raised |-> TRUE, ret |-> None]
      ELSE [t |-> [t EXCEPT !.current_clock = clock,
                            !.sync_changes = Append(@, row_of(change)),
                            !.sync_clock = to_json(clock)],
            raised |-> FALSE, ret |-> change]

\* Mutant of record_change: the UPDATE of sync_clock is left out.
record_change_clock_not_saved(t, entity_id, change_type, table_name, column_name, value, now, fault) ==
  LET clock == increment(t.current_clock, t.site_id)
      db_version == get_current_version(t) + 1
      change == Change(entity_id, change_type, table_name, column_name, value,
                       t.site_id, db_version, clock, now)
  IN  IF fault # "ok"
      THEN [t |-> [t EXCEPT !.current_clock = clock], raised |-> TRUE, ret |-> None]
      ELSE [t |-> [t EXCEPT !.current_clock = clock,
                            !.sync_changes = Append(@, row_of(change))],
            raised |-> FALSE, ret |-> change]

\* Mutant of record_change: the next version is counted over the rows of the
\* journal's own site_id alone.
record_change_own_version(t, entity_id, change_type, table_name, column_name, value, now, fault) ==
  LET clock == increment(t.current_clock, t.site_id)
      own == {t.sync_changes[i].db_version :
                i \in {j \in 1..Len(t.sync_changes) : t.sync_changes[j].site_id = t.site_id}}
      db_version == (IF own = {} THEN 0 ELSE CHOOSE x \in own : \A y \in own : y <= x) + 1
      change == Change(entity_id, change_type, table_name, column_name, value,
                       t.site_id, db_version, clock, now)
  IN  IF fault # "ok"
      THEN [t |-> [t EXCEPT !.current_clock = clock], raised |-> TRUE, ret |-> None]
      ELSE [t |-> [t EXCEPT !.current_clock = clock,
                            !.sync_changes = Append(@, row_of(change)),
                            !.sync_clock = to_json(clock)],
            raised |-> FALSE, ret |-> change]

\* Mutant of record_change: the version is the largest one of the journal,
\* not the next one (1 for an empty journal).
record_change_same_version(t, entity_id, change_type, table_name, column_name, value, now, fault) ==
  LET clock == increment(t.current_clock, t.site_id)
      db_version == Max2(get_current_version(t), 1)
      change == Change(entity_id, change_type, table_name, column_name, value,
                       t.site_id, db_version, clock, now)
  IN  IF fault # "ok"
      THEN [t |-> [t EXCEPT !.current_clock = clock], raised |-> TRUE, ret |-> None]
      ELSE [t |-> [t EXCEPT !.current_clock = clock,
                            !.sync_changes = Append(@, row_of(change)),
                            !.sync_clock = to_json(clock)],
            raised |-> FALSE, ret |-> change]

\* record_change: ret is the recorded Change; raised when an exception
\* leaves the call instead.
record_change(t, entity_id, change_type, table_name, column_name, value, now, fault) ==
  LET clock == increment(t.current_clock, t.site_id)
      db_version == get_current_version(t) + 1
      change == Change(entity_id, change_type, table_name, column_name, value,
                       t.site_id, db_version, clock, now)
  IN  IF fault # "ok"
      THEN [t |-> [t EXCEPT !.current_clock = clock], raised |-> TRUE, ret |-> None]
      ELSE [t |-> [t EXCEPT !.current_clock = clock,
                            !.sync_changes = Append(@, row_of(change)),
                            !.sync_clock = to_json(clock)],
            raised |-> FALSE, ret |-> change]

\* Mutant of apply_remote_change: the clocks are merged before the journal is
\* searched for the change.
apply_remote_change_merge_first(t, change, fault) ==
  LET existing == \E i \in 1..Len(t.sync_changes) :
                     /\ t.sync_changes[i].entity_id = change.entity_id
                     /\ t.sync_changes[i].site_id = change.site_id
                     /\ t.sync_changes[i].db_version = change.db_version
      clock == merge(t.current_clock, change.clock)
  IN  IF fault = "fail_read" THEN [t |-> t, ret |-> "Raise"]
      ELSE IF existing THEN [t |-> [t EXCEPT !.current_clock = clock], ret |-> "False"]
      ELSE IF fault = "fail_write"
      THEN [t |-> [t EXCEPT !.current_clock = clock], ret |-> "Raise"]
      ELSE [t |-> [t EXCEPT !.current_clock = clock,
                            !.sync_changes = Append(@, row_of(change)),
                            !.sync_clock = to_json(clock)],
            ret |-> "True"]

\* Mutant of apply_remote_change: the clock of the change replaces the
\* current clock instead of being merged into it.
apply_remote_change_clock_replaced(t, change, fault) ==
  LET existing == \E i \in 1..Len(t.sync_changes) :
                     /\ t.sync_changes[i].entity_id = change.entity_id
                     /\ t.sync_changes[i].site_id = change.site_id
                     /\ t.sync_changes[i].db_version = change.db_version
      clock == change.clock
  IN  IF fault = "fail_read" THEN [t |-> t, ret |-> "Raise"]
      ELSE IF existing THEN [t |-> t, ret |-> "False"]
      ELSE IF fault = "fail_write"
      THEN [t |-> [t EXCEPT !.current_clock = clock], ret |-> "Raise"]
      ELSE [t |-> [t EXCEPT !.current_clock = clock,
                            !.sync_changes = Append(@, row_of(change)),
                            !.sync_clock = to_json(clock)],
            ret |-> "True"]

\* Mutant of apply_remote_change: the journal is not searched for the
\* change before it is inserted.
apply_remote_change_no_lookup(t, change, fault) ==
  LET clock == merge(t.current_clock, change.clock)
  IN  IF fault = "fail_read" THEN [t |-> t, ret |-> "Raise"]
      ELSE IF fault = "fail_write"
      THEN [t |-> [t EXCEPT !.current_clock = clock], ret |-> "Raise"]
      ELSE [t |-> [t EXCEPT !.current_clock = clock,
                            !.sync_changes = Append(@, row_of(change)),
                            !.sync_clock = to_json(clock)],
            ret |-> "True"]

\* Mutant of apply_remote_change: the row is stamped with the applying
\* replica's site_id and next db_version.
apply_remote_change_restamped(t, change, fault) ==
  LET existing == \E i \in 1..Len(t.sync_changes) :
                     /\ t.sync_changes[i].entity_id = change.entity_id
                     /\ t.sync_changes[i].site_id = change.site_id
                     /\ t.sync_changes[i].db_version = change.db_version
      clock == merge(t.current_clock, change.clock)
      stamped == [change EXCEPT !.site_id = t.site_id,
                                !.db_version = get_current_version(t) + 1]
  IN  IF fault = "fail_read" THEN [t |-> t, ret |-> "Raise"]
      ELSE IF existing THEN [t |-> t, ret |-> "False"]
      ELSE IF fault = "fail_write"
      THEN [t |-> [t EXCEPT !.current_clock = clock], ret |-> "Raise"]
      ELSE [t |-> [t EXCEPT !.current_clock = clock,
                            !.sync_changes = Append(@, row_of(stamped)),
                            !.sync_clock = to_json(clock)],
            ret |-> "True"]

\* Mutant of apply_remote_change: the clock of the change is not merged into
\* the current clock.
apply_remote_change_no_merge(t, change, fault) ==
  LET existing == \E i \in 1..Len(t.sync_changes) :
                     /\ t.sync_changes[i].entity_id = change.entity_id
                     /\ t.sync_changes[i].site_id = change.site_id
                     /\ t.sync_changes[i].db_version = change.db_version
      clock == t.current_clock
  IN  IF fault = "fail_read" THEN [t |-> t, ret |-> "Raise"]
      ELSE IF existing THEN [t |-> t, ret |-> "False"]
      ELSE IF fault = "fail_write"
      THEN [t |-> [t EXCEPT !.current_clock = clock], ret |-> "Raise"]
      ELSE [t |-> [t EXCEPT !.current_clock = clock,
                            !.sync_changes = Append(@, row_of(change)),
                            !.sync_clock = to_json(clock)],
            ret |-> "True"]

\* apply_remote_change: ret is "True", "False" or "Raise".
apply_remote_change(t, change, fault) ==
  LET existing == \E i \in 1..Len(t.sync_changes) :
                     /\ t.sync_changes[i].entity_id = change.entity_id
                     /\ t.sync_changes[i].site_id = change.site_id
                     /\ t.sync_changes[i].db_version = change.db_version
      clock == merge(t.current_clock, change.clock)
  IN  IF fault = "fail_read" THEN [t |-> t, ret |-> "Raise"]
      ELSE IF existing THEN [t |-> t, ret |-> "False"]
      ELSE IF fault = "fail_write"
      THEN [t |-> [t EXCEPT !.current_clock = clock], ret |-> "Raise"]
      ELSE [t |-> [t EXCEPT !.current_clock = clock,
                            !.sync_changes = Append(@, row_of(change)),
                            !.sync_clock = to_json(clock)],
            ret |-> "True"]

(***************************************************************************)
(* merge.py: MergeResult and DatabaseMerger.                               *)
(***************************************************************************)
MergeResult(changes_sent, changes_received, conflicts_resolved, errors) ==
  [changes_sent |-> changes_sent, changes_received |-> changes_received,
   conflicts_resolved |-> conflicts_resolved, errors |-> errors]

\* MergeResult.success
success(result) == Len(result.errors) = 0

\* Mutant of get_changes_for_remote: the changes of the remote site's own
\* origin are not filtered out.
get_changes_for_remote_unfiltered(t, remote_site_id) ==
  LET last_remote_version == get_site_version(t, remote_site_id)
      changes == get_changes_since(t, last_remote_version)
  IN  [changes |-> changes, version |-> get_current_version(t)]

\* Mutant of get_changes_for_remote: the cursor is one past the watermark.
get_changes_for_remote_skip_one(t, remote_site_id) ==
  LET last_remote_version == get_site_version(t, remote_site_id) + 1
      changes == get_changes_since(t, last_remote_version)
      keep(c) == c.site_id # remote_site_id
  IN  [changes |-> SelectSeq(changes, keep), version |-> get_current_version(t)]

get_changes_for_remote(t, remote_site_id) ==
  LET last_remote_version == get_site_version(t, remote_site_id)
      changes == get_changes_since(t, last_remote_version)
      keep(c) == c.site_id # remote_site_id
  IN  [changes |-> SelectSeq(changes, keep), version |-> get_current_version(t)]

\* The store fault met by the i-th apply_remote_change of a batch; calls
\* beyond the listed ones meet none.
fault_at(faults, i) == IF i \in DOMAIN faults THEN faults[i] ELSE "ok"

\* Mutant of apply_loop: the first apply_remote_change that raises ends the
\* loop.
RECURSIVE apply_loop_abort(_, _, _, _, _, _)
apply_loop_abort(t, changes, faults, i, applied, errors) ==
  IF i > Len(changes) THEN [t |-> t, applied |-> applied, errors |-> errors]
  ELSE LET r == apply_remote_change(t, changes[i], fault_at(faults, i))
       IN  IF r.ret = "Raise"
           THEN [t |-> r.t, applied |-> applied,
                 errors |-> Append(errors, <<"Error applying change", changes[i].entity_id>>)]
           ELSE apply_loop_abort(r.t, changes, faults, i + 1,
                                 IF r.ret = "True" THEN applied + 1 ELSE applied, errors)

\* The for loop of apply_remote_changes from position i on.
RECURSIVE apply_loop(_, _, _, _, _, _)
apply_loop(t, changes, faults, i, applied, errors) ==
  IF i > Len(changes) THEN [t |-> t, applied |-> applied, errors |-> errors]
  ELSE LET r == apply_remote_change(t, changes[i], fault_at(faults, i))
       IN  apply_loop(r.t, changes, faults, i + 1,
                      IF r.ret = "True" THEN applied + 1 ELSE applied,
                      IF r.ret = "Raise"
                      THEN Append(errors, <<"Error applying change", changes[i].entity_id>>)
                      ELSE errors)

\* Mutant of apply_remote_changes: the watermark is set to the largest
\* db_version of the batch (0 for an empty batch), not to remote_version.
apply_remote_changes_batch_watermark(t, changes, remote_site_id, remote_version, faults) ==
  LET done == apply_loop(t, changes, faults, 1, 0, <<>>)
      vs == {changes[i].db_version : i \in 1..Len(changes)}
      top == IF vs = {} THEN 0 ELSE CHOOSE x \in vs : \A y \in vs : y <= x
  IN  [t |-> update_site_version(done.t, remote_site_id, top),
       result |-> MergeResult(0, done.applied, 0, done.errors)]

\* Mutant of apply_remote_changes: the list is walked from its end.
apply_remote_changes_reversed(t, changes, remote_site_id, remote_version, faults) ==
  LET rev == [k \in 1..Len(changes) |-> changes[Len(changes) + 1 - k]]
      done == apply_loop(t, rev, faults, 1, 0, <<>>)
  IN  [t |-> update_site_version(done.t, remote_site_id, remote_version),
       result |-> MergeResult(0, done.applied, 0, done.errors)]

\* apply_remote_changes: the loop, then the watermark.
apply_remote_changes(t, changes, remote_site_id, remote_version, faults) ==
  LET done == apply_loop(t, changes, faults, 1, 0, <<>>)
  IN  [t |-> update_site_version(done.t, remote_site_id, remote_version),
       result |-> MergeResult(0, done.applied, 0, done.errors)]

\* Mutant of sync_with: the pulled changes are filtered by the remote site's
\* id, not the local one.
sync_with_wrong_filter(local, remote, faults_local, faults_remote) ==
  LET remote_site_id == remote.site_id
      local_site_id == local.site_id
      out == get_changes_for_remote(local, remote_site_id)
      last_remote_version == get_site_version(local, remote_site_id)
      from_remote(c) == c.site_id # remote_site_id
      remote_changes == SelectSeq(get_changes_since(remote, last_remote_version), from_remote)
      remote_current_version == get_current_version(remote)
      local_result == apply_remote_changes(local, remote_changes, remote_site_id,
                                           remote_current_version, faults_local)
      remote_result == apply_remote_changes(remote, out.changes, local_site_id,
                                            out.version, faults_remote)
      tag(e) == <<"Remote">> \o e
      remote_errors == [k \in 1..Len(remote_result.result.errors) |->
                          tag(remote_result.result.errors[k])]
  IN  [local |-> local_result.t,
       remote |-> update_site_version(remote_result.t, local_site_id, out.version),
       to_send |-> out.changes,
       incoming |-> remote_changes,
       result |-> MergeResult(Len(out.changes),
                              local_result.result.changes_received,
                              local_result.result.conflicts_resolved
                                + remote_result.result.conflicts_resolved,
                              local_result.result.errors \o remote_errors)]

\* Mutant of sync_with: changes_sent counts the changes the remote applied.
sync_with_sent_applied(local, remote, faults_local, faults_remote) ==
  LET remote_site_id == remote.site_id
      local_site_id == local.site_id
      out == get_changes_for_remote(local, remote_site_id)
      last_remote_version == get_site_version(local, remote_site_id)
      from_remote(c) == c.site_id # local_site_id
      remote_changes == SelectSeq(get_changes_since(remote, last_remote_version), from_remote)
      remote_current_version == get_current_version(remote)
      local_result == apply_remote_changes(local, remote_changes, remote_site_id,
                                           remote_current_version, faults_local)
      remote_result == apply_remote_changes(remote, out.changes, local_site_id,
                                            out.version, faults_remote)
      tag(e) == <<"Remote">> \o e
      remote_errors == [k \in 1..Len(remote_result.result.errors) |->
                          tag(remote_result.result.errors[k])]
  IN  [local |-> local_result.t,
       remote |-> update_site_version(remote_result.t, local_site_id, out.version),
       to_send |-> out.changes,
       incoming |-> remote_changes,
       result |-> MergeResult(remote_result.result.changes_received,
                              local_result.result.changes_received,
                              local_result.result.conflicts_resolved
                                + remote_result.result.conflicts_resolved,
                              local_result.result.errors \o remote_errors)]

\* Mutant of sync_with: the remote's version is read after the remote has
\* applied the outbound changes.
sync_with_late_version(local, remote, faults_local, faults_remote) ==
  LET remote_site_id == remote.site_id
      local_site_id == local.site_id
      out == get_changes_for_remote(local, remote_site_id)
      last_remote_version == get_site_version(local, remote_site_id)
      from_remote(c) == c.site_id # local_site_id
      remote_changes == SelectSeq(get_changes_since(remote, last_remote_version), from_remote)
      remote_current_version ==
        get_current_version(apply_remote_changes(remote, out.changes, local_site_id,
                                                 out.version, faults_remote).t)
      local_result == apply_remote_changes(local, remote_changes, remote_site_id,
                                           remote_current_version, faults_local)
      remote_result == apply_remote_changes(remote, out.changes, local_site_id,
                                            out.version, faults_remote)
      tag(e) == <<"Remote">> \o e
      remote_errors == [k \in 1..Len(remote_result.result.errors) |->
                          tag(remote_result.result.errors[k])]
  IN  [local |-> local_result.t,
       remote |-> update_site_version(remote_result.t, local_site_id, out.version),
       to_send |-> out.changes,
       incoming |-> remote_changes,
       result |-> MergeResult(Len(out.changes),
                              local_result.result.changes_received,
                              local_result.result.conflicts_resolved
                                + remote_result.result.conflicts_resolved,
                              local_result.result.errors \o remote_errors)]

\* sync_with, self.local = local, remote_tracker = remote.  to_send and
\* incoming are the lists handed to the remote and to the local tracker.
sync_with(local, remote, faults_local, faults_remote) ==
  LET remote_site_id == remote.site_id
      local_site_id == local.site_id
      out == get_changes_for_remote(local, remote_site_id)
      last_remote_version == get_site_version(local, remote_site_id)
      from_remote(c) == c.site_id # local_site_id
      remote_changes == SelectSeq(get_changes_since(remote, last_remote_version), from_remote)
      remote_current_version == get_current_version(remote)
      local_result == apply_remote_changes(local, remote_changes, remote_site_id,
                                           remote_current_version, faults_local)
      remote_result == apply_remote_changes(remote, out.changes, local_site_id,
                                            out.version, faults_remote)
      tag(e) == <<"Remote">> \o e
      remote_errors == [k \in 1..Len(remote_result.result.errors) |->
                          tag(remote_result.result.errors[k])]
  IN  [local |-> local_result.t,
       remote |-> update_site_version(remote_result.t, local_site_id, out.version),
       to_send |-> out.changes,
       incoming |-> remote_changes,
       result |-> MergeResult(Len(out.changes),
                              local_result.result.changes_received,
                              local_result.result.conflicts_resolved
                                + remote_result.result.conflicts_resolved,
                              local_result.result.errors \o remote_errors)]

(***************************************************************************)
(* State, inputs and operations.                                           *)
(*   tracker[s]  the ChangeTracker of site s and its store                 *)
(*   last        the last call made and what it returned                   *)
(*   recording   whether callers still report local mutations              *)
(*   calls       the calls in progress on the store of "a", one per        *)
(*               caller: the statement each has reached and its locals     *)
(***************************************************************************)
Callers == {"t1", "t2"}

\* A caller that is in no call.
IdleCall ==
  [pc |-> "idle", op |-> None, entity_id |-> None, change |-> None, base |-> None,
   db_version |-> 0, changes |-> <<>>, ret |-> None]

Init ==
  /\ tracker = [s \in Sites |-> NewTracker(s)]
  /\ last = [op |-> "init", site |-> None, peer |-> None, arg |-> None,
             ret |-> [returned |-> FALSE]]
  /\ recording = TRUE
  /\ calls = [k \in Callers |-> IdleCall]

NoFaults == <<>>

\* Changes of origin "c" that reach a journal over a transport: for every
\* identity triple a copy stamped {site: version} at time 0 and a copy of the
\* same triple stamped {site: version + 1} at time 1.
RemoteChange(e, s, v, k) ==
  Change(e, "INSERT", "entities", None, None, s, v, [x \in {s} |-> v + k], k)

RemoteChanges ==
  {RemoteChange(e, "c", v, k) : e \in Entities, v \in {1, 2}, k \in {0, 1}}

\* The changes batches are made of: a change, a re-stamped copy of it and a
\* second change.
BatchChanges ==
  {RemoteChange("e1", "c", 1, 0), RemoteChange("e1", "c", 1, 1), RemoteChange("e2", "c", 2, 0)}

\* Batches of at most n such changes.
RECURSIVE BatchesOf(_)
BatchesOf(n) ==
  IF n = 0 THEN {<<>>}
  ELSE BatchesOf(n - 1) \cup
       {Append(b, c) : b \in {x \in BatchesOf(n - 1) : Len(x) = n - 1}, c \in BatchChanges}

\* tracker.record_change(entity_id, change_type, column_name=..., value=...)
RecordChange(s, entity_id, change_type, column_name, value, now, fault) ==
  LET r == record_change(tracker[s], entity_id, change_type, "entities",
                         column_name, value, now, fault)
  IN  /\ recording
      /\ get_current_version(tracker[s]) < MaxVersion
      /\ get(tracker[s].current_clock, s) < MaxClock
      /\ tracker' = [tracker EXCEPT ![s] = r.t]
      /\ last' = [op |-> "record_change", site |-> s, peer |-> None,
                  arg |-> entity_id, ret |-> [raised |-> r.raised, change |-> r.ret]]
      /\ UNCHANGED <<recording, calls>>

\* tracker.apply_remote_change(change)
ApplyRemoteChange(s, change, fault) ==
  LET r == apply_remote_change(tracker[s], change, fault)
  IN  /\ tracker' = [tracker EXCEPT ![s] = r.t]
      /\ last' = [op |-> "apply_remote_change", site |-> s, peer |-> None,
                  arg |-> change, ret |-> r.ret]
      /\ UNCHANGED <<recording, calls>>

\* tracker.update_site_version(site_id, version)
UpdateSiteVersion(s, site_id, version) ==
  /\ tracker' = [tracker EXCEPT ![s] = update_site_version(@, site_id, version)]
  /\ last' = [op |-> "update_site_version", site |-> s, peer |-> site_id,
              arg |-> version, ret |-> None]
  /\ UNCHANGED <<recording, calls>>

\* DatabaseMerger(tracker).apply_remote_changes(changes, remote_site_id, remote_version)
ApplyRemoteChanges(s, changes, remote_site_id, remote_version, faults) ==
  LET r == apply_remote_changes(tracker[s], changes, remote_site_id, remote_version, faults)
  IN  /\ tracker' = [tracker EXCEPT ![s] = r.t]
      /\ last' = [op |-> "apply_remote_changes", site |-> s, peer |-> remote_site_id,
                  arg |-> [n |-> Len(changes), version |-> remote_version],
                  ret |-> r.result]
      /\ UNCHANGED <<recording, calls>>

\* DatabaseMerger(tracker[l]).sync_with(tracker[r])
SyncWith(l, r, faults_local, faults_remote) ==
  LET res == sync_with(tracker[l], tracker[r], faults_local, faults_remote)
  IN  /\ l # r
      /\ tracker' = [tracker EXCEPT ![l] = res.local, ![r] = res.remote]
      /\ last' = [op |-> "sync_with", site |-> l, peer |-> r,
                  arg |-> None,
                  ret |-> res.result]
      /\ UNCHANGED <<recording, calls>>

\* ChangeTracker(db_path, site_id) on the store of site s: a new handle.
Reopen(s) ==
  /\ tracker' = [tracker EXCEPT ![s] = init_tables(@)]
  /\ last' = [op |-> "reopen", site |-> s, peer |-> None, arg |-> None, ret |-> None]
  /\ UNCHANGED <<recording, calls>>

\* Callers stop reporting local mutations.
StopRecording ==
  /\ recording
  /\ recording' = FALSE
  /\ UNCHANGED <<tracker, last, calls>>

(***************************************************************************)
(* Spec: replicas that record local changes and sync pairwise, no store    *)
(* fault.                                                                  *)
(***************************************************************************)
Rows(s) == Len(tracker[s].sync_changes)

\* Number of changes recorded so far in the replicated system.
Recorded ==
  Cardinality({<<s, i>> \in Sites \X (1..(3 * MaxRecords)) :
                 /\ i <= Len(tracker[s].sync_changes)
                 /\ tracker[s].sync_changes[i].site_id = s})

Record ==
  \E s \in Sites, e \in {"e1"} :
    /\ Recorded < MaxRecords
    /\ RecordChange(s, e, "INSERT", None, None, 0, "ok")

Sync ==
  \E l \in Sites, r \in Sites :
    SyncWith(l, r, NoFaults, NoFaults)

Next == Record \/ Sync

Spec == Init /\ [][Next]_vars

(***************************************************************************)
(* SpecFair: as Spec, and callers may stop recording for good; every pair  *)
(* of replicas keeps syncing, in one direction or the other.               *)
(***************************************************************************)
NextFair == Record \/ Sync \/ StopRecording

SyncPair(l, r) == SyncWith(l, r, NoFaults, NoFaults) \/ SyncWith(r, l, NoFaults, NoFaults)

\* ENABLED <<SyncWith(l, r, NoFaults, NoFaults)>>_vars, computed from the state.
SyncChanges(l, r) ==
  LET res == sync_with(tracker[l], tracker[r], NoFaults, NoFaults)
  IN  /\ l # r
      /\ \/ res.local # tracker[l]
         \/ res.remote # tracker[r]
         \/ last.op # "sync_with"
         \/ last.site # l
         \/ last.peer # r
         \/ last.ret # res.result

\* WF_vars(SyncPair(l, r)), with ENABLED written as the state predicate above.
WeaklyFair(l, r) ==
  \/ []<>(~(SyncChanges(l, r) \/ SyncChanges(r, l)))
  \/ []<><<SyncPair(l, r)>>_vars

Fairness == WeaklyFair("a", "b") /\ WeaklyFair("a", "c") /\ WeaklyFair("b", "c")

SpecFair == Init /\ [][NextFair]_vars /\ Fairness

(***************************************************************************)
(* Properties of the replicated system.                                    *)
(***************************************************************************)
\* The identity triples of the changes a journal holds.
Triples(s) == {triple(c) : c \in {change_of(tracker[s].sync_changes[i]) : i \in 1..Rows(s)}}

SameJournal(l, r) ==
  /\ Triples(l) = Triples(r)
  /\ clock_eq(get_current_clock(tracker[l]), get_current_clock(tracker[r]))

\* The last call was a sync_with that reported no error.
Synced == last.op = "sync_with" /\ success(last.ret)

\* C1: right after a sync_with between L and R that reports no errors, both
\* journals hold the same set of identity triples and their current clocks
\* are equal.
C1_ConvergenceAfterSync == Synced => SameJournal(last.site, last.peer)

Converged == \A l \in Sites, r \in Sites : SameJournal(l, r)

\* C2: once the replicas have stopped recording, with every pair syncing
\* again and again, all journals eventually hold the same set of identity
\* triples and all current clocks are equal.
C2_EventualConsistency == (~recording) ~> Converged

\* C3: right after an error-free sync_with between B and C, every change of
\* a third origin A that either of them holds is held by the other, with its
\* site_id and db_version.
C3_TransitivePropagation ==
  Synced =>
    \A x \in Sites \ {last.site, last.peer} :
      {t \in Triples(last.site) : t[1] = x} = {t \in Triples(last.peer) : t[1] = x}

\* C2 happens: recording has stopped and the three journals have converged
\* on the changes of two origins, the last of them delivered by a sync.
C2_Witness ==
  /\ ~recording
  /\ Converged
  /\ last.op = "sync_with"
  /\ Cardinality({t[1] : t \in Triples("a")}) = 2

\* C3 happens: an error-free sync has just ended between two replicas of
\* which one held a change of the third replica.
C3_Reached ==
  /\ Synced
  /\ \E x \in Sites \ {last.site, last.peer} : \E t \in Triples(last.site) : t[1] = x

\* What a sync_with started in this state between l and r hands over.
Handed(l, r) == sync_with(tracker[l], tracker[r], NoFaults, NoFaults)

InSeq(q) == {q[i] : i \in 1..Len(q)}

\* C5: the outbound list for peer P never holds a change whose site_id is P,
\* and a sync_with hands neither replica a change of that replica's own
\* site_id.
C5_NoEcho ==
  \A l \in Sites, p \in Sites :
    /\ \A c \in InSeq(get_changes_for_remote(tracker[l], p).changes) : c.site_id # p
    /\ l # p => /\ \A c \in InSeq(Handed(l, p).to_send) : c.site_id # p
                /\ \A c \in InSeq(Handed(l, p).incoming) : c.site_id # l

\* C5 happens: a journal holds a change of peer P above its watermark for P,
\* and a peer holds a change of L above L's watermark for that peer.
C5_Witness ==
  /\ \E l \in Sites : \E p \in Sites \ {l} :
       \E c \in InSeq(get_changes_since(tracker[l], get_site_version(tracker[l], p))) :
         c.site_id = p
  /\ \E l \in Sites : \E r \in Sites \ {l} :
       \E c \in InSeq(get_changes_since(tracker[r], get_site_version(tracker[l], r))) :
         c.site_id = l

\* C9: no step of records and error-free syncs lowers any replica's
\* watermark for any peer.
C9_WatermarkMonotone ==
  [][\A s \in Sites, p \in Sites :
       get_site_version(tracker'[s], p) >= get_site_version(tracker[s], p)]_vars

\* C9 happens: a sync has just ended between two replicas that each hold a
\* positive watermark for the other.
C9_Witness ==
  /\ Synced
  /\ get_site_version(tracker[last.site], last.peer) > 0
  /\ get_site_version(tracker[last.peer], last.site) > 0

(***************************************************************************)
(* SpecJournal: the journal of "a" driven call by call.  It records, is    *)
(* reopened, receives changes of origin "c" one by one and in batches from *)
(* peer "b", with store faults, and has its watermark for "b" written.     *)
(***************************************************************************)
JRecord ==
  \E e \in {"e1"}, fault \in {"ok", "fail_write"} :
    /\ Rows("a") < MaxRows
    /\ RecordChange("a", e, "INSERT", None, None, 0, fault)

JApply ==
  \E c \in RemoteChanges, fault \in Faults :
    /\ Rows("a") < MaxRows
    /\ ApplyRemoteChange("a", c, fault)

JUpdate == \E v \in 0..MaxVersion : UpdateSiteVersion("a", "b", v)

JBatch ==
  \E changes \in BatchesOf(2), v \in 0..MaxVersion :
    /\ Rows("a") + Len(changes) <= MaxRows
    /\ \E faults \in [1..Len(changes) -> Faults] :
         ApplyRemoteChanges("a", changes, "b", v, faults)

JReopen == Reopen("a")

NextJournal == JRecord \/ JApply \/ JUpdate \/ JBatch \/ JReopen

SpecJournal == Init /\ [][NextJournal]_vars

(***************************************************************************)
(* Properties of one journal.                                              *)
(***************************************************************************)
\* Whether the journal of s holds a row with the identity triple of change.
Holds(s, change) == triple(change) \in Triples(s)

MaxOwnVersion(t) ==
  LET vs == {t.sync_changes[i].db_version :
               i \in {j \in 1..Len(t.sync_changes) : t.sync_changes[j].site_id = t.site_id}}
  IN  IF vs = {} THEN 0 ELSE CHOOSE x \in vs : \A y \in vs : y <= x

\* A record_change has just returned a change.
Recorded1 == last.op = "record_change" /\ ~last.ret.raised

\* C6: record_change stamps 1 + the largest db_version among the rows of the
\* journal's own site_id; applied remote rows do not count.
C6_VersionFromOwnRows ==
  [][Recorded1' => last'.ret.change.db_version = 1 + MaxOwnVersion(tracker[last'.site])]_vars

\* C8: update_site_version never lowers the stored watermark.
C8_WatermarkWriteMonotone ==
  [][last'.op = "update_site_version" =>
       get_site_version(tracker'[last'.site], last'.peer)
         >= get_site_version(tracker[last'.site], last'.peer)]_vars

\* C10: apply_remote_changes of a non-empty batch sets the watermark to the
\* given version iff at least one change was processed without failure and
\* the version is at least the stored watermark, and else leaves it; of an
\* empty batch it always sets it.
C10_WatermarkAfterBatch ==
  [][last'.op = "apply_remote_changes" =>
       LET old == get_site_version(tracker[last'.site], last'.peer)
           new == get_site_version(tracker'[last'.site], last'.peer)
           v == last'.arg.version
           processed == last'.arg.n - Len(last'.ret.errors)
       IN  IF last'.arg.n = 0 \/ (processed >= 1 /\ v >= old)
           THEN new = v
           ELSE new = old]_vars

(***************************************************************************)
(* SpecMixed: replicas "a" and "b" record (a record may meet a store       *)
(* fault), sync with each other and are reopened; "a" receives changes of  *)
(* origin "c" over a transport.                                            *)
(***************************************************************************)
MRecord ==
  \E s \in {"a", "b"}, fault \in {"ok", "fail_write"} :
    /\ Recorded < MaxRecords
    /\ RecordChange(s, "e1", "INSERT", None, None, 0, fault)

MSync == \E l \in {"a", "b"}, r \in {"a", "b"} : SyncWith(l, r, NoFaults, NoFaults)

MApply ==
  \E c \in {RemoteChange("e1", "c", 1, 0), RemoteChange("e2", "c", 2, 0)} :
    ApplyRemoteChange("a", c, "ok")

MReopen == \E s \in {"a", "b"} : Reopen(s)

NextMixed == MRecord \/ MSync \/ MApply \/ MReopen

SpecMixed == Init /\ [][NextMixed]_vars

\* The rows of a journal's own site_id have pairwise different db_versions.
OwnVersionsDistinct ==
  \A s \in Sites :
    LET rows == tracker[s].sync_changes
    IN  \A i \in 1..Len(rows), j \in 1..Len(rows) :
          (i # j /\ rows[i].site_id = s /\ rows[j].site_id = s)
            => rows[i].db_version # rows[j].db_version

\* C7: every record_change returns a db_version that is positive and greater
\* than that of every row of the same site already in its journal, so the
\* rows of a journal's own site never share a db_version; with reopens,
\* remote applies and syncs between the records.
C7_OwnVersionsIncrease ==
  /\ []OwnVersionsDistinct
  /\ [][Recorded1' =>
          LET t == tracker[last'.site]
              v == last'.ret.change.db_version
          IN  /\ v > 0
              /\ \A i \in 1..Len(t.sync_changes) :
                   t.sync_changes[i].site_id = t.site_id => v > t.sync_changes[i].db_version]_vars

\* C7 happens: a site has just recorded its second change, and between its
\* two rows the journal holds an applied row of origin "c".
C7_Witness ==
  /\ Recorded1
  /\ LET rows == tracker[last.site].sync_changes
     IN  \E i \in 1..Len(rows), j \in 1..Len(rows), k \in 1..Len(rows) :
           /\ i < j /\ j < k
           /\ rows[i].site_id = last.site
           /\ rows[j].site_id = "c"
           /\ rows[k].site_id = last.site

(***************************************************************************)
(* SpecRetry: replicas "a" and "b" record and sync with each other; the    *)
(* first apply_remote_change on either side of a sync may meet a store     *)
(* fault.                                                                  *)
(***************************************************************************)
SyncFaults == {<<>>, <<"fail_read">>, <<"fail_write">>}

RRecord ==
  \E s \in {"a", "b"}, e \in Entities :
    /\ Recorded < MaxRecords
    /\ RecordChange(s, e, "INSERT", None, None, 0, "ok")

RSync ==
  \E l \in {"a", "b"}, r \in {"a", "b"}, faults_local \in SyncFaults, faults_remote \in SyncFaults :
    SyncWith(l, r, faults_local, faults_remote)

NextRetry == RRecord \/ RSync

SpecRetry == Init /\ [][NextRetry]_vars

\* The identity triples of the rows of a tracker.
TriplesOf(t) == {triple(change_of(t.sync_changes[i])) : i \in 1..Len(t.sync_changes)}

\* The entity ids named by the errors of a report: those of changes that
\* failed on the local side, and those that failed on the remote side.
FailedLocal(result) == {x[2] : x \in {y \in InSeq(result.errors) : Len(y) = 2}}
FailedRemote(result) == {x[3] : x \in {y \in InSeq(result.errors) : Len(y) = 3}}

\* Every change of entity e that the journal of `from` holds and that is not
\* of the origin of `to` is held by the journal of `to`.
Delivered(from, to, e) ==
  \A x \in TriplesOf(from) : (x[3] = e /\ x[1] # to.site_id) => x \in TriplesOf(to)

\* C11: when a sync_with reported an error for an incoming change and the
\* next call is a sync_with between the same two replicas in which nothing
\* fails, the change is afterwards in the journal of the replica that failed
\* to apply it.
C11_RetryDelivers ==
  [][(/\ last.op = "sync_with" /\ ~success(last.ret)
      /\ last'.op = "sync_with" /\ success(last'.ret)
      /\ {last'.site, last'.peer} = {last.site, last.peer})
     => /\ \A e \in FailedLocal(last.ret) :
             Delivered(tracker'[last.peer], tracker'[last.site], e)
        /\ \A e \in FailedRemote(last.ret) :
             Delivered(tracker'[last.site], tracker'[last.peer], e)]_vars

\* The last call raised a store error out of record_change or
\* apply_remote_change.
Raised ==
  \/ last.op = "record_change" /\ last.ret.raised
  \/ last.op = "apply_remote_change" /\ last.ret = "Raise"

\* C12: a record_change or apply_remote_change that raised on a store fault
\* leaves get_changes_since(0), get_current_version() and get_current_clock()
\* of the journal exactly as they were before the call.
C12_NoPartialEffect ==
  [][Raised' =>
       LET old == tracker[last'.site]
           new == tracker'[last'.site]
       IN  /\ get_changes_since(new, 0) = get_changes_since(old, 0)
           /\ get_current_version(new) = get_current_version(old)
           /\ get_current_clock(new) = get_current_clock(old)]_vars

\* The position of the k-th smallest member of a set of positions.
Kth(idx, k) == CHOOSE i \in idx : Cardinality({j \in idx : j <= i}) = k

\* What apply_remote_changes is to do with a batch handed to tracker t when
\* the i-th apply_remote_change meets faults[i]: position i finds its change
\* in the journal if t held it or an earlier position put it there.
BatchOutcome(t, changes, faults) ==
  LET n == Len(changes)
      found(i) == \/ triple(changes[i]) \in TriplesOf(t)
                  \/ \E j \in 1..(i - 1) :
                       faults[j] = "ok" /\ triple(changes[j]) = triple(changes[i])
      raises == {i \in 1..n : faults[i] = "fail_read" \/ (faults[i] = "fail_write" /\ ~found(i))}
      applies == {i \in 1..n : faults[i] = "ok" /\ ~found(i)}
  IN  [raises |-> raises, applies |-> applies]

\* C13: apply_remote_changes goes through the whole batch whatever fails in
\* it: each change whose apply raises gives exactly one entry of errors
\* naming it, each other change is appended in batch order or found to be a
\* duplicate, the rows held before stay, changes_received counts the appended
\* rows, and success is false exactly when some apply raised.
C13_BatchContinues ==
  \A changes \in BatchesOf(2) :
    Rows("a") + Len(changes) <= MaxRows =>
      \A faults \in [1..Len(changes) -> Faults] :
        LET t == tracker["a"]
            r == apply_remote_changes(t, changes, "b", 0, faults)
            o == BatchOutcome(t, changes, faults)
            before == t.sync_changes
            after == r.t.sync_changes
            new == SubSeq(after, Len(before) + 1, Len(after))
        IN  /\ Len(r.result.errors) = Cardinality(o.raises)
            /\ \A k \in 1..Len(r.result.errors) :
                 r.result.errors[k]
                   = <<"Error applying change", changes[Kth(o.raises, k)].entity_id>>
            /\ success(r.result) <=> o.raises = {}
            /\ SubSeq(after, 1, Len(before)) = before
            /\ Len(new) = Cardinality(o.applies)
            /\ \A k \in 1..Len(new) : new[k] = row_of(changes[Kth(o.applies, k)])
            /\ r.result.changes_received = Len(new)
            /\ \A i \in 1..Len(changes) :
                 faults[i] = "ok" => triple(changes[i]) \in TriplesOf(r.t)

\* C13 happens: a batch of two changes has just been applied of which one
\* raised and the other was appended.
C13_Witness ==
  /\ last.op = "apply_remote_changes"
  /\ last.arg.n = 2
  /\ Len(last.ret.errors) = 1
  /\ last.ret.changes_received = 1
  /\ ~success(last.ret)

\* C14: when two replicas that have synced before sync again, the outbound
\* list holds no change of the sending replica that the peer already holds,
\* that is, none that an earlier sync delivered.
C14_IncrementalSync ==
  [][(/\ last'.op = "sync_with"
      /\ success(last'.ret)
      /\ last'.peer \in DOMAIN tracker[last'.site].sync_sites)
     => LET local == tracker[last'.site]
            remote == tracker[last'.peer]
            out == get_changes_for_remote(local, remote.site_id).changes
        IN  /\ last'.ret.changes_sent = Len(out)
            /\ \A c \in InSeq(out) :
                 c.site_id = local.site_id => triple(c) \notin TriplesOf(remote)]_vars

\* The three journals after "a" recorded one change, then
\* DatabaseMerger(a).sync_with(b), then DatabaseMerger(b).sync_with(c), all
\* from fresh stores.
ChainSynced ==
  LET a1 == record_change(NewTracker("a"), "e1", "INSERT", "entities", None, None, 0, "ok").t
      ab == sync_with(a1, NewTracker("b"), NoFaults, NoFaults)
      bc == sync_with(ab.remote, NewTracker("c"), NoFaults, NoFaults)
  IN  [s \in Sites |-> CASE s = "a" -> ab.local [] s = "b" -> bc.local [] s = "c" -> bc.remote]

\* C15: after a recorded one change and it went from a to b and from b to c,
\* DatabaseMerger(a).sync_with(c) reports changes_sent = 0 and
\* changes_received = 0.
C15_ChainThenDirect ==
  [][(tracker = ChainSynced /\ last'.op = "sync_with" /\ last'.site = "a" /\ last'.peer = "c")
     => last'.ret.changes_sent = 0 /\ last'.ret.changes_received = 0]_vars

\* DatabaseMerger(l).sync_with(r) called again on what a sync_with returned.
SyncAgain(res) == sync_with(res.local, res.remote, NoFaults, NoFaults)

\* C16: when a sync_with has just been made, the same call made again
\* reports changes_received = 0, and made a third and a fourth time it reports
\* changes_sent = 0 and changes_received = 0 and leaves both journals, both
\* clocks and everything else of both replicas as they are.
C16_RepeatedSyncFixedPoint ==
  last.op = "sync_with" =>
    LET second == sync_with(tracker[last.site], tracker[last.peer], NoFaults, NoFaults)
        third == SyncAgain(second)
        fourth == SyncAgain(third)
    IN  /\ second.result.changes_received = 0
        /\ third.result.changes_sent = 0
        /\ third.result.changes_received = 0
        /\ third.local = second.local
        /\ third.remote = second.remote
        /\ fourth.result = third.result
        /\ fourth.local = third.local
        /\ fourth.remote = third.remote

\* C16 happens: a sync_with has just been made after which the second call
\* still has a change to send and has watermarks to move.
C16_Witness ==
  /\ last.op = "sync_with"
  /\ LET second == sync_with(tracker[last.site], tracker[last.peer], NoFaults, NoFaults)
     IN  /\ second.result.changes_sent > 0
         /\ second.local # tracker[last.site]
  /\ \E x \in Sites \ {last.site, last.peer} : \E t \in Triples(last.site) : t[1] = x

(***************************************************************************)
(* SpecFaulty: replicas "a" and "b" with every operation and store faults. *)
(* They record, sync with each other and are reopened; "a" receives a      *)
(* change of origin "c" over a transport and has its watermark for "b"     *)
(* written.  A record of "a", an apply and the first apply_remote_change   *)
(* on the local side of a sync may meet a store fault.                     *)
(***************************************************************************)
FRecord ==
  \E s \in {"a", "b"} : \E fault \in (IF s = "a" THEN {"ok", "fail_write"} ELSE {"ok"}) :
    /\ Recorded < MaxRecords
    /\ RecordChange(s, "e1", "INSERT", None, None, 0, fault)

FSync ==
  \E l \in {"a", "b"}, r \in {"a", "b"}, faults_local \in {<<>>, <<"fail_write">>} :
    SyncWith(l, r, faults_local, NoFaults)

FApply ==
  \E fault \in {"ok", "fail_write"} :
    ApplyRemoteChange("a", RemoteChange("e1", "c", 1, 0), fault)

FUpdate == \E v \in {0, MaxVersion} : UpdateSiteVersion("a", "b", v)

FReopen == \E s \in {"a", "b"} : Reopen(s)

NextFaulty == FRecord \/ FSync \/ FApply \/ FUpdate \/ FReopen

SpecFaulty == Init /\ [][NextFaulty]_vars

\* Clock d has every key of clock c, with a counter at least as large.
ClockGrows(c, d) == DOMAIN c \subseteq DOMAIN d /\ \A x \in DOMAIN c : d[x] >= c[x]

\* C17: no record_change, apply_remote_change or sync_with, failed or not,
\* lowers a counter of any journal's current clock or removes a key of it.
C17_ClockMonotone ==
  [][last'.op \in {"record_change", "apply_remote_change", "sync_with"} =>
       \A s \in Sites :
         ClockGrows(get_current_clock(tracker[s]), get_current_clock(tracker'[s]))]_vars

\* C17 happens: the clock of "a" holds counters of three sites, its own
\* raised twice, the last of them set by a record, an apply or a sync.
C17_Witness ==
  /\ last.op \in {"record_change", "apply_remote_change", "sync_with"}
  /\ DOMAIN get_current_clock(tracker["a"]) = {"a", "b", "c"}
  /\ get_current_clock(tracker["a"])["a"] >= 2

\* C18: no step removes a row of any journal or alters one: the rows a
\* journal held stay, in place and field by field, and get_current_version
\* does not decrease.
C18_AppendOnly ==
  [][\A s \in Sites :
       LET old == tracker[s].sync_changes
           new == tracker'[s].sync_changes
       IN  /\ Len(new) >= Len(old)
           /\ SubSeq(new, 1, Len(old)) = old
           /\ get_current_version(tracker'[s]) >= get_current_version(tracker[s])]_vars

\* C18 happens: the journal of "a" holds rows of three origins and has just
\* been reopened.
C18_Witness ==
  /\ last.op = "reopen"
  /\ last.site = "a"
  /\ {tracker["a"].sync_changes[i].site_id : i \in 1..Rows("a")} = {"a", "b", "c"}

(***************************************************************************)
(* SpecClean: as SpecFaulty with a healthy store: every call completes     *)
(* without error.                                                          *)
(***************************************************************************)
CRecord ==
  \E s \in {"a", "b"} :
    /\ Recorded < MaxRecords
    /\ RecordChange(s, "e1", "INSERT", None, None, 0, "ok")

CSync == \E l \in {"a", "b"}, r \in {"a", "b"} : SyncWith(l, r, NoFaults, NoFaults)

CApply == \E k \in {0, 1} : ApplyRemoteChange("a", RemoteChange("e1", "c", 1, k), "ok")

CUpdate == \E v \in {0, MaxVersion} : UpdateSiteVersion("a", "b", v)

CReopen == \E s \in {"a", "b"} : Reopen(s)

NextClean == CRecord \/ CSync \/ CApply \/ CUpdate \/ CReopen

SpecClean == Init /\ [][NextClean]_vars

\* C19: after calls that all completed without error, a new handle opened on
\* the store of a journal returns the same get_changes_since(0),
\* get_current_version(), get_current_clock() and watermarks as the old
\* handle, and opening changes nothing in the store.
C19_RestartPersistence ==
  \A s \in Sites :
    LET old == tracker[s]
        new == init_tables(old)
    IN  /\ get_changes_since(new, 0) = get_changes_since(old, 0)
        /\ get_current_version(new) = get_current_version(old)
        /\ get_current_clock(new) = get_current_clock(old)
        /\ \A p \in Sites : get_site_version(new, p) = get_site_version(old, p)
        /\ new.sync_changes = old.sync_changes
        /\ new.sync_sites = old.sync_sites
        /\ new.sync_clock = old.sync_clock

\* C19 happens: a journal has just been reopened that holds a recorded and
\* an applied row, a clock of two sites and a watermark.
C19_Witness ==
  /\ last.op = "reopen"
  /\ \E i \in 1..Rows(last.site), j \in 1..Rows(last.site) :
       /\ tracker[last.site].sync_changes[i].site_id = last.site
       /\ tracker[last.site].sync_changes[j].site_id # last.site
  /\ Cardinality(DOMAIN get_current_clock(tracker[last.site])) >= 2
  /\ \E p \in Sites : get_site_version(tracker[last.site], p) > 0

(***************************************************************************)
(* merge_databases and SpecHandles.  merge_databases opens its own         *)
(* ChangeTracker on each of the two stores and syncs them; a handle the    *)
(* caller already holds on a store keeps the _current_clock it had.  The   *)
(* stores are named so that "site-<stem>" is the site id of their handles. *)
(***************************************************************************)
merge_databases(store_a, store_b) ==
  LET tracker_a == init_tables(store_a)
      tracker_b == init_tables(store_b)
  IN  sync_with(tracker_a, tracker_b, NoFaults, NoFaults)

\* merge_databases(db_path of l, db_path of r) while the handles tracker[l]
\* and tracker[r] stay in use.
MergeDatabases(l, r) ==
  LET res == merge_databases(tracker[l], tracker[r])
  IN  /\ l # r
      /\ tracker' = [tracker EXCEPT
                       ![l] = [res.local EXCEPT !.current_clock = tracker[l].current_clock],
                       ![r] = [res.remote EXCEPT !.current_clock = tracker[r].current_clock]]
      /\ last' = [op |-> "merge_databases", site |-> l, peer |-> r,
                  arg |-> None, ret |-> res.result]
      /\ UNCHANGED <<recording, calls>>

HRecord ==
  \E s \in {"a", "b"}, e \in Entities :
    /\ Recorded < MaxRecords
    /\ RecordChange(s, e, "INSERT", None, None, 0, "ok")

HMerge == \E l \in {"a", "b"}, r \in {"a", "b"} : MergeDatabases(l, r)

HSync == \E l \in {"a", "b"}, r \in {"a", "b"} : SyncWith(l, r, NoFaults, NoFaults)

HReopen == \E s \in {"a", "b"} : Reopen(s)

NextHandles == HRecord \/ HMerge \/ HSync \/ HReopen

SpecHandles == Init /\ [][NextHandles]_vars

\* The persisted clock of a store is at least the clock of each of its rows,
\* site by site.
PersistedClockDominates(t) ==
  \A i \in 1..Len(t.sync_changes), x \in Sites :
    get(from_json(t.sync_clock), x) >= get(from_json(t.sync_changes[i].clock_json), x)

\* C20: in every state, the persisted clock of every store dominates the
\* clock of every row of its journal.
C20_PersistedClockDominates == \A s \in Sites : PersistedClockDominates(tracker[s])

\* C21: the clock of the change a record_change returns compares After (1)
\* the clock of every row that was in the journal when it was called.
C21_RecordObservesApplied ==
  [][Recorded1' =>
       LET rows == tracker[last'.site].sync_changes
       IN  \A i \in 1..Len(rows) :
             compare(last'.ret.change.clock, from_json(rows[i].clock_json)) = 1]_vars

(***************************************************************************)
(* SpecConcurrent: two callers (threads) share the ChangeTracker of "a"    *)
(* and its store.  A call runs statement by statement and the statements   *)
(* of the two calls interleave.  Each call opens its own connection; what  *)
(* a connection writes is seen by the other at its commit, and a second    *)
(* writer waits for that commit.                                           *)
(*   record_change            load and store of _current_clock (172),      *)
(*                            SELECT MAX (177-178), Change(...) (182-192), *)
(*                            INSERT, UPDATE and commit (195-220)          *)
(*   apply_remote_change      SELECT existing (291-300), merge (303),      *)
(*                            INSERT, UPDATE and commit (306-331)          *)
(*   get_changes_for_remote   the changes (59-65), the version (67)        *)
(***************************************************************************)
\* The next statement of caller k belongs to no call.
Free(k) == calls[k].pc \in {"idle", "done"}

Returns(k, op, peer, arg, ret) ==
  last' = [op |-> op, site |-> "a", peer |-> peer, arg |-> arg, ret |-> ret]

\* Caller k calls record_change(entity_id, ChangeType.INSERT).
RcCall(k, entity_id) ==
  /\ Free(k)
  /\ Rows("a") < MaxRows
  /\ calls' = [calls EXCEPT ![k] = [IdleCall EXCEPT !.pc = "rc_load", !.op = "record_change",
                                                    !.entity_id = entity_id]]
  /\ UNCHANGED <<tracker, last, recording>>

\* self._current_clock.increment(self.site_id), on the clock read now.
RcLoad(k) ==
  /\ calls[k].pc = "rc_load"
  /\ calls' = [calls EXCEPT ![k].pc = "rc_store",
                            ![k].base = increment(tracker["a"].current_clock, tracker["a"].site_id)]
  /\ UNCHANGED <<tracker, last, recording>>

\* self._current_clock = ...
RcStore(k) ==
  /\ calls[k].pc = "rc_store"
  /\ tracker' = [tracker EXCEPT !["a"].current_clock = calls[k].base]
  /\ calls' = [calls EXCEPT ![k].pc = "rc_select"]
  /\ UNCHANGED <<last, recording>>

\* db_version = SELECT COALESCE(MAX(db_version), 0) + 1
RcSelect(k) ==
  /\ calls[k].pc = "rc_select"
  /\ calls' = [calls EXCEPT ![k].pc = "rc_build",
                            ![k].db_version = get_current_version(tracker["a"]) + 1]
  /\ UNCHANGED <<tracker, last, recording>>

\* change = Change(..., clock=self._current_clock, ...)
RcBuild(k) ==
  /\ calls[k].pc = "rc_build"
  /\ calls' = [calls EXCEPT ![k].pc = "rc_commit",
                            ![k].change = Change(calls[k].entity_id, "INSERT", "entities", None, None,
                                                 tracker["a"].site_id, calls[k].db_version,
                                                 tracker["a"].current_clock, 0)]
  /\ UNCHANGED <<tracker, last, recording>>

\* INSERT INTO sync_changes, UPDATE sync_clock, commit, return change.
RcCommit(k) ==
  /\ calls[k].pc = "rc_commit"
  /\ tracker' = [tracker EXCEPT !["a"].sync_changes = Append(@, row_of(calls[k].change)),
                                !["a"].sync_clock = to_json(tracker["a"].current_clock)]
  /\ calls' = [calls EXCEPT ![k].pc = "done", ![k].ret = "Change"]
  /\ Returns(k, "record_change", k, calls[k].entity_id,
             [raised |-> FALSE, change |-> calls[k].change])
  /\ UNCHANGED recording

\* Caller k calls apply_remote_change(change).
ApCall(k, change) ==
  /\ Free(k)
  /\ Rows("a") < MaxRows
  /\ calls' = [calls EXCEPT ![k] = [IdleCall EXCEPT !.pc = "ap_select",
                                                    !.op = "apply_remote_change",
                                                    !.change = change]]
  /\ UNCHANGED <<tracker, last, recording>>

\* SELECT ... WHERE entity_id = ? AND site_id = ? AND db_version = ?;
\* if existing: return False.
ApSelect(k) ==
  /\ calls[k].pc = "ap_select"
  /\ IF triple(calls[k].change) \in TriplesOf(tracker["a"])
     THEN /\ calls' = [calls EXCEPT ![k].pc = "done", ![k].ret = "False"]
          /\ Returns(k, "apply_remote_change", k, calls[k].change, "False")
     ELSE /\ calls' = [calls EXCEPT ![k].pc = "ap_merge"]
          /\ UNCHANGED last
  /\ UNCHANGED <<tracker, recording>>

\* self._current_clock = self._current_clock.merge(change.clock)
ApMerge(k) ==
  /\ calls[k].pc = "ap_merge"
  /\ tracker' = [tracker EXCEPT !["a"].current_clock = merge(@, calls[k].change.clock)]
  /\ calls' = [calls EXCEPT ![k].pc = "ap_commit"]
  /\ UNCHANGED <<last, recording>>

\* INSERT INTO sync_changes, UPDATE sync_clock, commit, return True.
ApCommit(k) ==
  /\ calls[k].pc = "ap_commit"
  /\ tracker' = [tracker EXCEPT !["a"].sync_changes = Append(@, row_of(calls[k].change)),
                                !["a"].sync_clock = to_json(tracker["a"].current_clock)]
  /\ calls' = [calls EXCEPT ![k].pc = "done", ![k].ret = "True"]
  /\ Returns(k, "apply_remote_change", k, calls[k].change, "True")
  /\ UNCHANGED recording

\* Caller k calls DatabaseMerger(tracker of a).get_changes_for_remote("b").
GcCall(k) ==
  /\ Free(k)
  /\ calls' = [calls EXCEPT ![k] = [IdleCall EXCEPT !.pc = "gc_changes",
                                                    !.op = "get_changes_for_remote"]]
  /\ UNCHANGED <<tracker, last, recording>>

\* last_remote_version, changes and changes_to_send.
GcChanges(k) ==
  /\ calls[k].pc = "gc_changes"
  /\ calls' = [calls EXCEPT ![k].pc = "gc_version",
                            ![k].changes = get_changes_for_remote(tracker["a"], "b").changes]
  /\ UNCHANGED <<tracker, last, recording>>

\* return changes_to_send, self.local.get_current_version()
GcVersion(k) ==
  /\ calls[k].pc = "gc_version"
  /\ calls' = [calls EXCEPT ![k].pc = "done", ![k].ret = "Tuple",
                            ![k].db_version = get_current_version(tracker["a"])]
  /\ Returns(k, "get_changes_for_remote", "b", get_site_version(tracker["a"], "b"),
             [changes |-> calls[k].changes, version |-> get_current_version(tracker["a"])])
  /\ UNCHANGED <<tracker, recording>>

Call ==
  \E k \in Callers :
    \/ \E e \in Entities : RcCall(k, e)
    \/ ApCall(k, RemoteChange("e1", "c", 1, 0))
    \/ GcCall(k)

Step ==
  \E k \in Callers :
    \/ RcLoad(k) \/ RcStore(k) \/ RcSelect(k) \/ RcBuild(k) \/ RcCommit(k)
    \/ ApSelect(k) \/ ApMerge(k) \/ ApCommit(k)
    \/ GcChanges(k) \/ GcVersion(k)

NextConcurrent == Call \/ Step

SpecConcurrent == Init /\ [][NextConcurrent]_vars

\* No call is in progress.
Quiet == \A k \in Callers : Free(k)

\* The rows of the journal of s of origin x.
RowsOf(s, x) == {i \in 1..Rows(s) : tracker[s].sync_changes[i].site_id = x}

\* C22: whatever the interleaving of record_change calls on one store, the
\* recorded changes have different db_versions, and once the calls have
\* returned the persisted clock's counter for the site has gone up once per
\* recorded change.
C22_ConcurrentRecords ==
  /\ \A i \in RowsOf("a", "a"), j \in RowsOf("a", "a") :
       i # j => tracker["a"].sync_changes[i].db_version # tracker["a"].sync_changes[j].db_version
  /\ Quiet => get(from_json(tracker["a"].sync_clock), "a") = Cardinality(RowsOf("a", "a"))

\* C23: however two apply_remote_change calls of the same change interleave
\* on one store, the journal holds one row for its identity triple and only
\* one of the calls returns True.
C23_ConcurrentApplyOnce ==
  /\ \A i \in 1..Rows("a"), j \in 1..Rows("a") :
       i # j => triple(change_of(tracker["a"].sync_changes[i]))
                  # triple(change_of(tracker["a"].sync_changes[j]))
  /\ \A k \in Callers, m \in Callers :
       (/\ k # m
        /\ calls[k].pc = "done" /\ calls[k].op = "apply_remote_change"
        /\ calls[m].pc = "done" /\ calls[m].op = "apply_remote_change"
        /\ triple(calls[k].change) = triple(calls[m].change))
       => ~(calls[k].ret = "True" /\ calls[m].ret = "True")

\* C24: when get_changes_for_remote has just returned, with calls on the
\* same tracker interleaved with it, every row of the journal whose
\* db_version is above the watermark and at most the returned version and
\* whose site_id is not the peer's is in the returned list.  (Every step
\* that appends a row sets `last`, so the journal is the one of the return.)
C24_ConsistentOutbound ==
  last.op = "get_changes_for_remote" =>
    LET since == last.arg
        version == last.ret.version
        sent == {triple(c) : c \in InSeq(last.ret.changes)}
        rows == tracker["a"].sync_changes
    IN  \A i \in 1..Len(rows) :
          (/\ since < rows[i].db_version
           /\ rows[i].db_version <= version
           /\ rows[i].site_id # last.peer)
          => triple(change_of(rows[i])) \in sent

(***************************************************************************)
(* SpecInvalid: the journal of "a" records and is handed changes over a    *)
(* transport, well-formed and malformed ones.                              *)
(***************************************************************************)
\* A change with an empty entity_id, an empty site_id or a db_version that
\* is not positive.
Malformed(change) ==
  change.entity_id = "" \/ change.site_id = "" \/ change.db_version <= 0

InvalidChanges ==
  {Change(e, "INSERT", "entities", None, None, s, v, [x \in {"c"} |-> 1], 0) :
     e \in {"", "e1"}, s \in {"", "c"}, v \in {-1, 0, 1}}

IRecord ==
  /\ Rows("a") < MaxRows
  /\ RecordChange("a", "e1", "INSERT", None, None, 0, "ok")

IApply ==
  \E c \in InvalidChanges :
    /\ Rows("a") < MaxRows
    /\ ApplyRemoteChange("a", c, "ok")

NextInvalid == IRecord \/ IApply

SpecInvalid == Init /\ [][NextInvalid]_vars

\* C25: apply_remote_change of a malformed change raises and changes
\* nothing: no row is appended and the clock is not merged.
C25_RejectsMalformed ==
  [][(last'.op = "apply_remote_change" /\ Malformed(last'.arg)) =>
       /\ last'.ret = "Raise"
       /\ tracker' = tracker]_vars

(***************************************************************************)
(* SpecClock: the functions of VectorClock and the codec of Change applied *)
(* to arguments drawn from small sets; `last` holds the call and what it   *)
(* returned.                                                               *)
(***************************************************************************)
ClockSites == {"a", "b"}

\* The clocks over ClockSites with counters up to MaxVersion; a site may be
\* missing from the dict.
Clocks == UNION {[d -> 0..MaxVersion] : d \in SUBSET ClockSites}

\* Serialized clocks handed to from_json: what to_json produces, and JSON
\* objects holding a negative counter.
SerializedClocks ==
  {to_json(c) : c \in Clocks} \cup {{<<"a", -1>>}, {<<"a", 1>>, <<"b", -2>>}}

\* a.increment(s)
ClockIncrement ==
  \E a \in Clocks, s \in ClockSites :
    /\ last' = [op |-> "increment", site |-> s, peer |-> None, arg |-> a,
                ret |-> increment(a, s)]
    /\ UNCHANGED <<tracker, recording, calls>>

\* a.merge(b)
ClockMerge ==
  \E a \in Clocks, b \in Clocks :
    /\ last' = [op |-> "merge", site |-> None, peer |-> None, arg |-> <<a, b>>,
                ret |-> merge(a, b)]
    /\ UNCHANGED <<tracker, recording, calls>>

\* a.compare(b)
ClockCompare ==
  \E a \in Clocks, b \in Clocks :
    /\ last' = [op |-> "compare", site |-> None, peer |-> None, arg |-> <<a, b>>,
                ret |-> compare(a, b)]
    /\ UNCHANGED <<tracker, recording, calls>>

\* a.to_json()
ClockToJson ==
  \E a \in Clocks :
    /\ last' = [op |-> "to_json", site |-> None, peer |-> None, arg |-> a,
                ret |-> to_json(a)]
    /\ UNCHANGED <<tracker, recording, calls>>

\* VectorClock.from_json(j): no statement of it raises.
ClockFromJson ==
  \E j \in SerializedClocks :
    /\ last' = [op |-> "from_json", site |-> None, peer |-> None, arg |-> j,
                ret |-> [clock |-> from_json(j), raised |-> FALSE]]
    /\ UNCHANGED <<tracker, recording, calls>>

\* VectorClock.to_dict / VectorClock.from_dict: a deep copy of the dict.
to_dict(c) == [s \in DOMAIN c |-> c[s]]
from_dict(d) == [s \in DOMAIN d |-> d[s]]

\* Change.to_dict
Change_to_dict(change) ==
  [entity_id |-> change.entity_id,
   change_type |-> change_type_value(change.change_type),
   table_name |-> change.table_name,
   column_name |-> change.column_name,
   value |-> change.value,
   site_id |-> change.site_id,
   db_version |-> change.db_version,
   clock |-> to_dict(change.clock),
   timestamp |-> isoformat(change.timestamp)]

\* d.get(key)
dict_get(d, key) == IF key \in DOMAIN d THEN d[key] ELSE None

\* A from_dict that does not read the value.
Change_from_dict_no_value(d) ==
  Change(d["entity_id"], change_type_of(d["change_type"]), d["table_name"],
         dict_get(d, "column_name"), None, d["site_id"],
         d["db_version"], from_dict(d["clock"]), fromisoformat(d["timestamp"]))

\* Change.from_dict
Change_from_dict(d) ==
  Change(d["entity_id"], change_type_of(d["change_type"]), d["table_name"],
         dict_get(d, "column_name"), dict_get(d, "value"), d["site_id"],
         d["db_version"], from_dict(d["clock"]), fromisoformat(d["timestamp"]))

\* The changes handed to the codec: every change type, column_name and value
\* null or not, clocks with no, one and two keys.
CodecClocks ==
  {EmptyClock, [x \in {"a"} |-> 1], [x \in {"a", "b"} |-> IF x = "a" THEN 0 ELSE 2],
   [x \in {"a", "b"} |-> IF x = "a" THEN 2 ELSE 1]}

CodecChanges ==
  {Change("e1", ct, "entities", col, val, "a", v, k, ts) :
     ct \in ChangeTypes, col \in {None, "name"}, val \in {None, "v"},
     v \in 1..MaxVersion, k \in CodecClocks, ts \in {0, 1}}

\* c.to_dict()
ChangeToDict ==
  \E c \in CodecChanges :
    /\ last' = [op |-> "to_dict", site |-> None, peer |-> None, arg |-> c,
                ret |-> Change_to_dict(c)]
    /\ UNCHANGED <<tracker, recording, calls>>

\* Change.from_dict(d) for an encoded change d
ChangeFromDict ==
  \E c \in CodecChanges :
    /\ last' = [op |-> "from_dict", site |-> None, peer |-> None,
                arg |-> Change_to_dict(c),
                ret |-> Change_from_dict(Change_to_dict(c))]
    /\ UNCHANGED <<tracker, recording, calls>>

NextClock ==
  \/ ClockIncrement
  \/ ClockMerge
  \/ ClockCompare
  \/ ClockToJson
  \/ ClockFromJson
  \/ ChangeToDict
  \/ ChangeFromDict

SpecClock == Init /\ [][NextClock]_vars

\* A serialized clock with a negative counter.
NegativeCounter(j) == \E p \in j : p[2] < 0

\* C26: from_json of a serialized clock with a negative counter raises; it
\* returns no clock.
C26_DecodeRejectsMalformed ==
  (last.op = "from_json" /\ NegativeCounter(last.arg)) => last.ret.raised

\* C27: merge is a join.  For the clocks a, b of a merge call and its result
\* r: r equals b.merge(a); r.merge(c) equals a.merge(b.merge(c)) for every
\* clock c; a.merge(a) equals a; and r's counter for every site is the larger
\* of the two inputs' counters (a missing key counting 0).
C27_MergeIsJoin ==
  last.op = "merge" =>
    LET a == last.arg[1]
        b == last.arg[2]
        r == last.ret
    IN  /\ clock_eq(r, merge(b, a))
        /\ \A c \in Clocks : clock_eq(merge(r, c), merge(a, merge(b, c)))
        /\ clock_eq(merge(a, a), a)
        /\ \A s \in ClockSites :
             /\ get(r, s) >= get(a, s)
             /\ get(r, s) >= get(b, s)
             /\ get(r, s) \in {get(a, s), get(b, s)}

\* Two concurrent clocks with different keys have been merged.
C27_Witness ==
  /\ last.op = "merge"
  /\ last.arg = <<[x \in {"a"} |-> 2], [x \in {"b"} |-> 1]>>
  /\ DOMAIN last.ret = {"a", "b"}
  /\ last.ret["a"] = 2
  /\ last.ret["b"] = 1

\* The pointwise order and pointwise equality of two clocks, a missing key
\* counting 0.
Leq(a, b) == \A s \in ClockSites : get(a, s) <= get(b, s)
SameCounters(a, b) == \A s \in ClockSites : get(a, s) = get(b, s)

\* C28: compare classifies by the pointwise order and agrees with merge.  For
\* the clocks a, b of a compare call: the result is -1 exactly when
\* a.merge(b) == b and a != b, 1 exactly when b.merge(a) == a and a != b,
\* 0 exactly when all counters are equal, and None (2) otherwise; -1 and 1
\* are the strict pointwise orders; and a.increment(s) compares 1 to a for
\* every site s.
C28_CompareAgreesWithMerge ==
  last.op = "compare" =>
    LET a == last.arg[1]
        b == last.arg[2]
        r == last.ret
    IN  /\ r \in {-1, 0, 1, 2}
        /\ (r = -1) <=> (SameCounters(merge(a, b), b) /\ ~SameCounters(a, b))
        /\ (r = 1) <=> (SameCounters(merge(b, a), a) /\ ~SameCounters(a, b))
        /\ (r = 0) <=> SameCounters(a, b)
        /\ (r = -1) <=> (Leq(a, b) /\ ~Leq(b, a))
        /\ (r = 1) <=> (Leq(b, a) /\ ~Leq(a, b))
        /\ (r = 2) <=> (~Leq(a, b) /\ ~Leq(b, a))
        /\ clock_eq(a, b) <=> SameCounters(a, b)
        /\ \A s \in ClockSites : compare(increment(a, s), a) = 1

\* A clock has been compared with one that is ahead on a key the first
\* does not hold.
C28_Witness ==
  /\ last.op = "compare"
  /\ last.arg = <<[x \in {"a"} |-> 1], [x \in {"a", "b"} |-> 1]>>
  /\ last.ret = -1

\* Dataclass equality of two changes: every field equal, the clocks by
\* VectorClock.__eq__.
SameChange(x, y) ==
  /\ x.entity_id = y.entity_id
  /\ x.change_type = y.change_type
  /\ x.table_name = y.table_name
  /\ x.column_name = y.column_name
  /\ x.value = y.value
  /\ x.site_id = y.site_id
  /\ x.db_version = y.db_version
  /\ clock_eq(x.clock, y.clock)
  /\ SameCounters(x.clock, y.clock)
  /\ x.timestamp = y.timestamp

\* C29: the codec round-trips.  A change decoded by from_dict from the dict
\* to_dict made of a change c equals c in every field, and a clock decoded by
\* from_json from the text to_json made of a clock k equals k.
C29_CodecRoundTrip ==
  /\ last.op = "from_dict" =>
       \A c \in CodecChanges : (last.arg = Change_to_dict(c)) => SameChange(last.ret, c)
  /\ (last.op = "from_json" /\ ~NegativeCounter(last.arg)) =>
       \A k \in Clocks :
         (last.arg = to_json(k)) => (~last.ret.raised /\ last.ret.clock = k)

\* A delete with null column_name and value and a two-key clock has been
\* decoded from its dict.
C29_Witness ==
  /\ last.op = "from_dict"
  /\ last.arg.change_type = "delete"
  /\ last.arg.timestamp = isoformat(1)
  /\ last.ret.change_type = "DELETE"
  /\ last.ret.column_name = None
  /\ last.ret.value = None
  /\ DOMAIN last.ret.clock = {"a", "b"}
  /\ last.ret.timestamp = 1

(***************************************************************************)
(* SpecTriples: replicas "a" and "b" record, sync with each other and      *)
(* receive changes over a transport, one call after the other: a change of *)
(* origin "c", a re-stamped copy of it, and a change that carries the      *)
(* identity of the first change "a" records.                               *)
(***************************************************************************)
TransportChanges ==
  {RemoteChange("e1", "c", 1, 0), RemoteChange("e1", "c", 1, 1), RemoteChange("e1", "a", 1, 0)}

URecord ==
  \E s \in {"a", "b"} :
    /\ Recorded < MaxRecords
    /\ RecordChange(s, "e1", "INSERT", None, None, 0, "ok")

USync == \E l \in {"a", "b"}, r \in {"a", "b"} : SyncWith(l, r, NoFaults, NoFaults)

UApply == \E s \in {"a", "b"}, c \in TransportChanges : ApplyRemoteChange(s, c, "ok")

NextTriples == URecord \/ USync \/ UApply

SpecTriples == Init /\ [][NextTriples]_vars

\* C30: a journal holds at most one row for each identity triple
\* (site_id, db_version, entity_id).
C30_UniqueTriples ==
  \A s \in Sites :
    LET rows == tracker[s].sync_changes
    IN  \A i \in 1..Len(rows), j \in 1..Len(rows) :
          (i # j) => \/ rows[i].site_id # rows[j].site_id
                     \/ rows[i].db_version # rows[j].db_version
                     \/ rows[i].entity_id # rows[j].entity_id

\* "a" holds the row it recorded and a received one, and has just refused
\* a change whose identity triple it already holds.
C30_Witness ==
  /\ last.op = "apply_remote_change"
  /\ last.site = "a"
  /\ last.ret = "False"
  /\ Rows("a") >= 2
  /\ \E i \in 1..Rows("a") :
       /\ tracker["a"].sync_changes[i].site_id = "a"
       /\ tracker["a"].sync_changes[i].db_version = 1

\* C31: for every journal and every version v, get_changes_since(v) returns
\* the rows whose db_version is greater than v and no other, each as often as
\* the journal holds it, in non-decreasing db_version order; and
\* get_current_version is the largest db_version of the rows, 0 for an empty
\* journal.  Both only read the store.
C31_ChangesSince ==
  \A s \in Sites, v \in 0..MaxVersion :
    LET t == tracker[s]
        rows == t.sync_changes
        r == get_changes_since(t, v)
        cv == get_current_version(t)
    IN  /\ \A k \in 1..Len(r) : r[k].db_version > v
        /\ \A k \in 1..(Len(r) - 1) : r[k].db_version <= r[k + 1].db_version
        /\ Len(r) = Cardinality({i \in 1..Len(rows) : rows[i].db_version > v})
        /\ \A i \in 1..Len(rows) :
             Cardinality({k \in 1..Len(r) : r[k] = change_of(rows[i])})
               = IF rows[i].db_version > v
                 THEN Cardinality({j \in 1..Len(rows) : rows[j] = rows[i]})
                 ELSE 0
        /\ \A i \in 1..Len(rows) : rows[i].db_version <= cv
        /\ IF rows = <<>> THEN cv = 0 ELSE \E i \in 1..Len(rows) : rows[i].db_version = cv

\* "a" holds a row of version 2 before a row of version 1; the changes since
\* 0 start with the version 1 row and the changes since 1 are the other alone.
C31_Witness ==
  LET t == tracker["a"]
  IN  /\ Len(t.sync_changes) = 2
      /\ t.sync_changes[1].db_version = 2
      /\ t.sync_changes[2].db_version = 1
      /\ get_changes_since(t, 0)[1].db_version = 1
      /\ Len(get_changes_since(t, 1)) = 1
      /\ get_current_version(t) = 2

C33_ReportMatchesTransfer ==
  [][last'.op = "sync_with" =>
       LET l == last'.site
           r == last'.peer
       IN  /\ last'.ret.changes_sent = Len(get_changes_for_remote(tracker[l], r).changes)
           /\ last'.ret.changes_received
                = Len(tracker'[l].sync_changes) - Len(tracker[l].sync_changes)]_vars

\* "b" and "c" each got the change of "a" from "a" itself; "b" has just
\* synced with "c": it sent the change, which "c" held, and was handed the
\* same change, which it held and did not count.
C33_Witness ==
  /\ last.op = "sync_with"
  /\ last.site = "b"
  /\ last.peer = "c"
  /\ last.ret.changes_sent = 1
  /\ last.ret.changes_received = 0
  /\ Rows("b") = 1
  /\ Rows("c") = 1
  /\ tracker["b"].sync_changes[1].site_id = "a"
  /\ get_site_version(tracker["b"], "a") = 1
  /\ get_site_version(tracker["c"], "a") = 1

\* The rows of s are one row, recorded by s itself, and s holds no watermark.
FreshWithOne(s) ==
  /\ Rows(s) = 1
  /\ tracker[s].sync_changes[1].site_id = s
  /\ DOMAIN tracker[s].sync_sites = {}

\* C34: after a sync_with of L with R that reported no error, the watermark
\* of L for R is the current version R had when the sync started, and the
\* watermark of R for L is the current version L had when the sync started;
\* when both were fresh replicas with one recorded change each, both
\* watermarks are 1.
C34_WatermarksAfterSync ==
  [][Synced' =>
       LET l == last'.site
           r == last'.peer
       IN  /\ get_site_version(tracker'[l], r) = get_current_version(tracker[r])
           /\ get_site_version(tracker'[r], l) = get_current_version(tracker[l])
           /\ (FreshWithOne(l) /\ FreshWithOne(r)) =>
                /\ get_site_version(tracker'[l], r) = 1
                /\ get_site_version(tracker'[r], l) = 1]_vars

\* "a" and "b", fresh, recorded one change each and "a" has just synced with
\* "b": each holds both rows, its own first, and the watermark 1 for the
\* other and no other watermark.
C34_Witness ==
  /\ Synced
  /\ last.site = "a"
  /\ last.peer = "b"
  /\ last.ret.changes_sent = 1
  /\ last.ret.changes_received = 1
  /\ Rows("a") = 2
  /\ Rows("b") = 2
  /\ tracker["a"].sync_changes[1].site_id = "a"
  /\ tracker["b"].sync_changes[1].site_id = "b"
  /\ tracker["a"].sync_sites = [x \in {"b"} |-> 1]
  /\ tracker["b"].sync_sites = [x \in {"a"} |-> 1]

\* C35: the rows one sync_with appends to a journal, on either side, stand
\* in the journal in non-decreasing db_version order.
C35_AscendingApply ==
  [][last'.op = "sync_with" =>
       \A s \in {last'.site, last'.peer} :
         LET n == Len(tracker[s].sync_changes)
             rows == tracker'[s].sync_changes
         IN  \A i \in (n + 1)..Len(rows), j \in (n + 1)..Len(rows) :
               (i < j) => rows[i].db_version <= rows[j].db_version]_vars

\* "a" holds the version 2 change of "c" before the version 1 change; a sync
\* has just handed both to "b", which holds them in version order.
C35_Witness ==
  /\ last.op = "sync_with"
  /\ {last.site, last.peer} = {"a", "b"}
  /\ Rows("a") = 2
  /\ tracker["a"].sync_changes[1].db_version = 2
  /\ tracker["a"].sync_changes[2].db_version = 1
  /\ Rows("b") = 2
  /\ tracker["b"].sync_changes[1].db_version = 1
  /\ tracker["b"].sync_changes[2].db_version = 2
  /\ tracker["b"].sync_changes[1].site_id = "c"
  /\ tracker["b"].sync_changes[2].site_id = "c"

\* The changes the journals hold, those of every replica together.
AllChanges == UNION {{change_of(tracker[s].sync_changes[i]) : i \in 1..Rows(s)} : s \in Sites}

\* C36: db_version order is consistent with causality.  Of any two changes
\* held anywhere, if the clock of the first compares Before (-1) the clock of
\* the second, the db_version of the first is below that of the second.
C36_VersionFollowsCausality ==
  \A c1 \in AllChanges, c2 \in AllChanges :
    (compare(c1.clock, c2.clock) = -1) => c1.db_version < c2.db_version

\* "b" holds a change of "a" and a change it recorded after receiving that
\* one: the second carries the larger clock and the larger db_version.
C36_Witness ==
  /\ Rows("b") = 2
  /\ tracker["b"].sync_changes[1].site_id = "a"
  /\ tracker["b"].sync_changes[2].site_id = "b"
  /\ compare(from_json(tracker["b"].sync_changes[1].clock_json),
             from_json(tracker["b"].sync_changes[2].clock_json)) = -1
  /\ tracker["b"].sync_changes[1].db_version = 1
  /\ tracker["b"].sync_changes[2].db_version = 2

\* The largest counter for site x among the clocks of the rows of t, 0 when
\* no row has one.
RowsCounter(t, x) ==
  LET ns == {get(from_json(t.sync_changes[i].clock_json), x) : i \in 1..Len(t.sync_changes)}
  IN  IF ns = {} THEN 0 ELSE CHOOSE n \in ns : \A m \in ns : m <= n

\* C37: the current clock of every journal is the pointwise maximum of the
\* clocks of its rows (the empty clock for an empty journal), and two
\* journals holding the same set of rows have equal clocks.
C37_ClockIsJoinOfRows ==
  /\ \A s \in Sites, x \in Sites :
       get(tracker[s].current_clock, x) = RowsCounter(tracker[s], x)
  /\ \A s \in Sites, p \in Sites :
       ({tracker[s].sync_changes[i] : i \in 1..Rows(s)}
          = {tracker[p].sync_changes[i] : i \in 1..Rows(p)})
         => clock_eq(tracker[s].current_clock, tracker[p].current_clock)

\* "a" holds a row it recorded and a row of origin "c" it applied; "b" holds
\* the same two rows after a sync; both clocks are their pointwise maximum.
C37_Witness ==
  /\ Rows("a") = 2
  /\ Rows("b") = 2
  /\ {tracker["a"].sync_changes[i] : i \in 1..2} = {tracker["b"].sync_changes[i] : i \in 1..2}
  /\ {tracker["a"].sync_changes[i].site_id : i \in 1..2} = {"a", "c"}
  /\ get(tracker["a"].current_clock, "a") >= 1
  /\ get(tracker["a"].current_clock, "c") >= 1
  /\ clock_eq(tracker["a"].current_clock, tracker["b"].current_clock)
  /\ last.op = "sync_with"

\* The rows of origin s that the journal of s holds.
OwnRows(s) == {tracker[s].sync_changes[i] : i \in {j \in 1..Rows(s) : tracker[s].sync_changes[j].site_id = s}}

\* C38: in runs of records and syncs without error, every watermark a
\* journal holds is at most its current version, and right after a sync_with
\* between L and R, started by either, every change recorded at L before the
\* sync is in the journal of R and every change recorded at R is in that of
\* L.
C38_OriginDelivers ==
  [][/\ \A s \in Sites, p \in Sites :
          get_site_version(tracker'[s], p) <= get_current_version(tracker'[s])
     /\ Synced' =>
          LET l == last'.site
              r == last'.peer
          IN  /\ OwnRows(l) \subseteq {tracker'[r].sync_changes[i] : i \in 1..Len(tracker'[r].sync_changes)}
              /\ OwnRows(r) \subseteq {tracker'[l].sync_changes[i] : i \in 1..Len(tracker'[l].sync_changes)}]_vars

\* "b" synced with "a", then "a" recorded a second change, and "b" has just
\* synced with "a" again: "b" initiated, and holds both changes of "a".
C38_Witness ==
  /\ Synced
  /\ last.site = "b"
  /\ last.peer = "a"
  /\ get_site_version(tracker["b"], "a") = 2
  /\ last.ret.changes_received = 1
  /\ Rows("a") = 2
  /\ Rows("b") = 2
  /\ \A i \in 1..2 : tracker["b"].sync_changes[i].site_id = "a"

\* The rows the journal of s holds.
RowSet(s) == {tracker[s].sync_changes[i] : i \in 1..Rows(s)}

\* C39: for every pair L, R, every row of R at or below the watermark of L
\* for R whose site_id is not L is in the journal of L, and every row of L at
\* or below that watermark whose site_id is not R is in the journal of R.
C39_WatermarkSafeCursor ==
  \A l \in Sites, r \in Sites :
    (l # r) =>
      LET w == get_site_version(tracker[l], r)
      IN  /\ \A x \in RowSet(r) : (x.db_version <= w /\ x.site_id # l) => x \in RowSet(l)
          /\ \A x \in RowSet(l) : (x.db_version <= w /\ x.site_id # r) => x \in RowSet(r)

(***************************************************************************)
(* SpecEvents: three replicas record inserts and updates of one entity,    *)
(* one call after the other, and sync pairwise; no store fault.            *)
(***************************************************************************)
ERecord ==
  \E s \in Sites, ev \in {<<"INSERT", None, None>>, <<"UPDATE", "name", "v">>} :
    /\ Recorded < MaxRecords
    /\ RecordChange(s, "e1", ev[1], ev[2], ev[3], 0, "ok")

ESync == \E l \in Sites, r \in Sites : SyncWith(l, r, NoFaults, NoFaults)

NextEvents == ERecord \/ ESync

SpecEvents == Init /\ [][NextEvents]_vars

\* The number of rows of its own site_id that the journal of s holds.
OwnCount(s) == Cardinality({i \in 1..Rows(s) : tracker[s].sync_changes[i].site_id = s})

\* C40: any two rows, of one journal or of two, that share site_id,
\* db_version and entity_id have the same change_type, table_name,
\* column_name, value and clock; and a journal gains a row of its own site_id
\* only by a record_change of its own, never by a sync.
C40_DedupSameEvent ==
  [][/\ \A s \in Sites : Cardinality(Triples(s)') = Rows(s)'
     /\ \A x \in UNION {RowSet(s)' : s \in Sites}, y \in UNION {RowSet(s)' : s \in Sites} :
          (triple(change_of(x)) = triple(change_of(y)))
            => /\ x.change_type = y.change_type
               /\ x.table_name = y.table_name
               /\ x.column_name = y.column_name
               /\ x.value = y.value
               /\ clock_eq(from_json(x.clock_json), from_json(y.clock_json))
     /\ \A s \in Sites :
          (OwnCount(s)' # OwnCount(s))
            => /\ last'.op = "record_change"
               /\ last'.site = s
               /\ OwnCount(s)' = OwnCount(s) + 1]_vars

\* "a" recorded an insert, "b" recorded an update with the same db_version
\* and entity_id, and a sync has just left both rows in both journals.
C40_Witness ==
  /\ Synced
  /\ Rows("a") = 2
  /\ Rows("b") = 2
  /\ RowSet("a") = RowSet("b")
  /\ \E x \in RowSet("a"), y \in RowSet("a") :
       /\ x.site_id = "a" /\ y.site_id = "b"
       /\ x.db_version = y.db_version
       /\ x.entity_id = y.entity_id
       /\ x.change_type = "insert" /\ y.change_type = "update"

====
